---- MODULE Spec2Model ----
(***************************************************************************)
(* A model of mnist.h, the single-header decoder of the MNIST IDX files:   *)
(* mnist_load_labels, mnist_load_images, mnist_get_label, mnist_get_image  *)
(* and the two endianness helpers.                                         *)
(*                                                                         *)
(* The loaders are modelled statement by statement (pc is the position in  *)
(* the function body), over files given as byte sequences, with the C      *)
(* integer widths kept: u32 is a value modulo 2^32, int is a signed 32-bit *)
(* value, size_t is 64 bits wide (an LP64 host).  A conversion of an       *)
(* out-of-range value to int is taken to wrap, as every mainstream         *)
(* compiler defines it.  An int is a TLA+ integer; an unsigned quantity    *)
(* (u32, size_t, a file length, an exact product) is the sequence of its   *)
(* base-256 digits, least significant first, without leading zeros, so     *)
(* that values of 2^31 and more can be computed with.                      *)
(***************************************************************************)
EXTENDS Integers, Sequences, FiniteSets, TLC

VARIABLES
    host,        \* the platform: byte order, and what malloc(0) returns
    pc,          \* position of the program
    fn,          \* the API function being (or last) executed
    file,        \* the file named by filepath
    fp,          \* FILE *fp: "null", "open" or "closed"
    fpos,        \* read position of fp
    header,      \* mnist_labels_header / mnist_images_header
    size,        \* the int size of mnist_load_images
    label_data,  \* the local pointer of mnist_load_labels
    image_data,  \* the local pointer of mnist_load_images
    heap,        \* the block malloc gave this call
    labels,      \* the mnist_labels struct of mnist_load_labels
    images,      \* the mnist_images struct of mnist_load_images
    access,      \* outcome of the last mnist_get_label / mnist_get_image
    trace,       \* library calls made by the current load, in order
    probe        \* the value under test of the endianness helpers

vars == <<host, pc, fn, file, fp, fpos, header, size, label_data, image_data,
          heap, labels, images, access, trace, probe>>

----------------------------------------------------------------------------
(* Bounds of the model.                                                    *)

MaxLabelBytes == 3
MaxImageBytes == 8
MaxIndex == 2

----------------------------------------------------------------------------
(* Unsigned quantities: base-256 digits, least significant first.          *)

RECURSIVE Norm(_)
Norm(s) ==
    IF s = <<>> THEN <<>>
    ELSE IF s[Len(s)] = 0 THEN Norm(SubSeq(s, 1, Len(s) - 1)) ELSE s

RECURSIVE FromInt(_)
FromInt(n) == IF n = 0 THEN <<>> ELSE <<n % 256>> \o FromInt(n \div 256)

\* the TLA+ integer of a quantity below 2^31
RECURSIVE Native(_)
Native(s) == IF s = <<>> THEN 0 ELSE s[1] + 256 * Native(Tail(s))

Digit(s, i) == IF i <= Len(s) THEN s[i] ELSE 0

\* the digits of s, padded or cut to exactly n digits (s modulo 256^n)
Pad(s, n) == [i \in 1..n |-> Digit(s, i)]
Low(s, n) == Norm(Pad(s, n))

RECURSIVE AddFrom(_, _, _, _)
AddFrom(a, b, i, c) ==
    IF i > Len(a) /\ i > Len(b) THEN (IF c = 0 THEN <<>> ELSE <<c>>)
    ELSE LET s == Digit(a, i) + Digit(b, i) + c
         IN  <<s % 256>> \o AddFrom(a, b, i + 1, s \div 256)
Add(a, b) == Norm(AddFrom(a, b, 1, 0))

\* a - b, for a >= b
RECURSIVE SubFrom(_, _, _, _)
SubFrom(a, b, i, c) ==
    IF i > Len(a) THEN <<>>
    ELSE LET s == Digit(a, i) - Digit(b, i) - c
         IN  IF s < 0 THEN <<s + 256>> \o SubFrom(a, b, i + 1, 1)
             ELSE <<s>> \o SubFrom(a, b, i + 1, 0)
Sub(a, b) == Norm(SubFrom(a, b, 1, 0))

RECURSIVE MulDigitFrom(_, _, _, _)
MulDigitFrom(a, d, i, c) ==
    IF i > Len(a) THEN (IF c = 0 THEN <<>> ELSE <<c>>)
    ELSE LET s == a[i] * d + c
         IN  <<s % 256>> \o MulDigitFrom(a, d, i + 1, s \div 256)

RECURSIVE Mul(_, _)
Mul(a, b) ==
    IF b = <<>> THEN <<>>
    ELSE Add(Norm(MulDigitFrom(a, b[1], 1, 0)), Norm(<<0>> \o Mul(a, Tail(b))))

RECURSIVE LessAt(_, _, _)
LessAt(a, b, i) ==
    IF i = 0 THEN FALSE
    ELSE IF a[i] # b[i] THEN a[i] < b[i] ELSE LessAt(a, b, i - 1)
Less(a, b) == IF Len(a) # Len(b) THEN Len(a) < Len(b) ELSE LessAt(a, b, Len(a))
LessEq(a, b) == a = b \/ Less(a, b)
Min(a, b) == IF Less(a, b) THEN a ELSE b

TwoTo31 == <<0, 0, 0, 128>>

----------------------------------------------------------------------------
(* C integer arithmetic.                                                   *)

MinInt == (-1073741824) - 1073741824

\* conversion of a wider unsigned value to u32 (unsigned int): modulo 2^32
ToU32(u) == Low(u, 4)

\* conversion of a u32 to int: the same 32 bits read as two's complement
ToInt(u) ==
    LET d == Pad(u, 4)
    IN  IF d[4] >= 128
        THEN (Native(<<d[1], d[2], d[3], d[4] - 128>>) - 1073741824) - 1073741824
        ELSE Native(Norm(d))

\* conversion of an int to u32: the two's complement bits as an unsigned value
IntToU32(x) ==
    IF x >= 0 THEN FromInt(x)
    ELSE LET d == Pad(FromInt((x + 1073741824) + 1073741824), 4)
         IN  <<d[1], d[2], d[3], d[4] + 128>>

\* conversion of an int to size_t (64 bits): sign extension
IntToSizeT(x) ==
    IF x >= 0 THEN FromInt(x) ELSE IntToU32(x) \o <<255, 255, 255, 255>>

\* u32 multiplication: modulo 2^32
MulU32(a, b) == ToU32(Mul(a, b))

\* the largest request malloc can serve (PTRDIFF_MAX of a 64-bit host)
MallocMax == <<255, 255, 255, 255, 255, 255, 255, 127>>

\* the magnitude of an int
Magnitude(x) ==
    IF x >= 0 THEN FromInt(x) ELSE IF x = MinInt THEN TwoTo31 ELSE FromInt(-x)

\* a * b of two ints is representable in int (otherwise the multiplication
\* is undefined behaviour)
IntMulDefined(a, b) ==
    LET m == Mul(Magnitude(a), Magnitude(b))
    IN  Less(m, TwoTo31) \/ (m = TwoTo31 /\ ((a < 0) # (b < 0)))

RECURSIVE BitOr(_, _)
BitOr(a, b) ==
    IF a = 0 THEN b
    ELSE IF b = 0 THEN a
    ELSE (IF (a % 2 = 1) \/ (b % 2 = 1) THEN 1 ELSE 0)
         + 2 * BitOr(a \div 2, b \div 2)

RECURSIVE BitAnd(_, _)
BitAnd(a, b) ==
    IF a = 0 \/ b = 0 THEN 0
    ELSE (IF (a % 2 = 1) /\ (b % 2 = 1) THEN 1 ELSE 0)
         + 2 * BitAnd(a \div 2, b \div 2)

\* | and & of two u32, digit by digit
OrU32(a, b) == Norm([i \in 1..4 |-> BitOr(Digit(a, i), Digit(b, i))])
AndU32(a, b) == Norm([i \in 1..4 |-> BitAnd(Digit(a, i), Digit(b, i))])

\* v >> k and v << k of a u32, for k a multiple of 8
ShiftR(v, k) == Norm([i \in 1..4 |-> Digit(v, i + (k \div 8))])
ShiftL(v, k) ==
    Norm([i \in 1..4 |-> IF i > (k \div 8) THEN Digit(v, i - (k \div 8)) ELSE 0])

\* ret |= e, with ret an int and e a u32: the OR is done on u32, the result
\* is stored back into the int
OrAssign(ret, e) == ToInt(OrU32(IntToU32(ret), e))

----------------------------------------------------------------------------
(* Byte order.                                                             *)

Reverse(s) == [i \in 1..Len(s) |-> s[Len(s) + 1 - i]]

\* The four bytes of a u32 in memory, lowest address first.
MemBytes(big, v) == IF big THEN Reverse(Pad(v, 4)) ELSE Pad(v, 4)

\* The u32 whose memory image is the four bytes b (what fread leaves in a
\* u32 it read four bytes into).
FromMem(big, b) == IF big THEN Norm(Reverse(b)) ELSE Norm(b)

\* A field as the file format stores it: most significant byte first.
BigEndianBytes(v) == Reverse(Pad(v, 4))
BigEndianValue(b) == Norm(Reverse(b))

\* int v = 1; return ((*(char *)(&v)) == 0);
is_big_endian(h) == MemBytes(h.big, FromInt(1))[1] = 0

\* the swap with byte 3 moved to byte 1 instead of byte 0
swap_endianness_u32_short(v) ==
    LET r1 == OrAssign(0, ShiftR(v, 24))
        r2 == OrAssign(r1, ShiftR(AndU32(v, FromInt(16711680)), 8))
        r3 == OrAssign(r2, ShiftL(AndU32(v, FromInt(65280)), 8))
        r4 == OrAssign(r3, ShiftL(v, 16))
    IN  r4

\* static int swap_endianness_u32(u32 v): the result is an int
swap_endianness_u32(v) ==
    LET r1 == OrAssign(0, ShiftR(v, 24))
        r2 == OrAssign(r1, ShiftR(AndU32(v, FromInt(16711680)), 8))
        r3 == OrAssign(r2, ShiftL(AndU32(v, FromInt(65280)), 8))
        r4 == OrAssign(r3, ShiftL(v, 24))
    IN  r4

\* header.f = swap_endianness_u32(header.f), under if (!is_big_endian())
Normalize(h, v) ==
    IF ~is_big_endian(h) THEN IntToU32(swap_endianness_u32(v)) ELSE v

MAGIC_NUMBER_LABELS == FromInt(2049)
MAGIC_NUMBER_IMAGES == FromInt(2051)

----------------------------------------------------------------------------
(* Files.  A file is a byte sequence; `tail` further zero bytes follow     *)
(* the listed ones, which stands for a file too long to list.              *)

Hosts == [big : BOOLEAN, malloc0_null : BOOLEAN]

Take(s, n) == SubSeq(s, 1, IF n < Len(s) THEN n ELSE Len(s))

LabelByte(i) == <<7, 3, 0, 255>>[((i - 1) % 4) + 1]
PixelByte(i) == i % 256

LabelPayload(k) == [i \in 1..k |-> LabelByte(i)]
PixelPayload(k) == [i \in 1..k |-> PixelByte(i)]

\* magic numbers tried: the two of the format, and the label one byte-swapped
Magics == {MAGIC_NUMBER_LABELS, MAGIC_NUMBER_IMAGES, <<0, 0, 8, 1>>}

LabelCounts ==
    {FromInt(0), FromInt(1), FromInt(2), FromInt(MaxLabelBytes),
     TwoTo31, <<255, 255, 255, 255>>}

\* (number_of_images, number_of_rows, number_of_columns)
ImageDims ==
    { <<FromInt(0), FromInt(2), FromInt(2)>>,
      <<FromInt(1), FromInt(1), FromInt(1)>>,
      <<FromInt(2), FromInt(2), FromInt(2)>>,
      <<FromInt(2), FromInt(1), FromInt(2)>>,
      <<FromInt(3), FromInt(2), FromInt(1)>>,
      <<FromInt(1), FromInt(MaxImageBytes), FromInt(1)>>,
      <<FromInt(65536), FromInt(65536), FromInt(1)>>,
      <<FromInt(3), FromInt(65536), FromInt(65536)>>,
      <<FromInt(2), FromInt(3), FromInt(715827883)>>,
      <<<<1, 0, 0, 128>>, FromInt(2), FromInt(1)>>,
      <<<<1, 0, 0, 128>>, FromInt(1), FromInt(1)>>,
      <<TwoTo31, FromInt(1), FromInt(1)>> }

OnDisk(bytes, tail) == [path |-> "ok", bytes |-> bytes, tail |-> tail]

NullPath == [path |-> "null", bytes |-> <<>>, tail |-> <<>>]
Missing == [path |-> "missing", bytes |-> <<>>, tail |-> <<>>]

LabelFiles ==
    { OnDisk(BigEndianBytes(m) \o BigEndianBytes(n) \o LabelPayload(k), <<>>) :
        m \in Magics, n \in LabelCounts, k \in 0..MaxLabelBytes }

\* label files of 2^31 bytes and more
LongLabelFiles ==
    { OnDisk(BigEndianBytes(MAGIC_NUMBER_LABELS) \o BigEndianBytes(n)
             \o LabelPayload(k), TwoTo31) :
        n \in LabelCounts, k \in 0..MaxLabelBytes }

ImageFiles ==
    { OnDisk(BigEndianBytes(m) \o BigEndianBytes(d[1]) \o BigEndianBytes(d[2])
             \o BigEndianBytes(d[3]) \o PixelPayload(k), <<>>) :
        m \in Magics, d \in ImageDims, k \in 0..MaxImageBytes }

\* files cut inside the header
CutFiles ==
    { OnDisk(Take(BigEndianBytes(m) \o BigEndianBytes(FromInt(2))
                  \o BigEndianBytes(FromInt(2)) \o BigEndianBytes(FromInt(2)), c),
             <<>>) :
        m \in {MAGIC_NUMBER_LABELS, MAGIC_NUMBER_IMAGES},
        c \in {0, 3, 4, 7, 8, 11, 12, 15} }

Files == LabelFiles \cup LongLabelFiles \cup ImageFiles \cup CutFiles \cup {NullPath, Missing}

\* the bytes of f after position pos: how many there are
Avail(f, pos) ==
    Add(FromInt(IF Len(f.bytes) > pos THEN Len(f.bytes) - pos ELSE 0), f.tail)
FileByte(f, i) == IF i <= Len(f.bytes) THEN f.bytes[i] ELSE 0

\* fread(&field, sizeof(u32), 1, fp): the number of items read (0 or 1)
FreadU32Count(f, pos) == IF LessEq(FromInt(4), Avail(f, pos)) THEN 1 ELSE 0
\* ... and the value left in the field when the item was read
FreadU32Value(h, f, pos) ==
    FromMem(h.big, [i \in 1..4 |-> FileByte(f, pos + i)])

\* fread(data, 1, n, fp): the number of bytes read
FreadCount(f, pos, n) == Min(n, Avail(f, pos))

\* the bytes fread stored: the listed ones, and how many zero bytes after
FreadBytes(f, pos, n) ==
    LET listed == IF Len(f.bytes) > pos THEN Len(f.bytes) - pos ELSE 0
        k == IF Less(n, FromInt(listed)) THEN Native(n) ELSE listed
    IN  SubSeq(f.bytes, pos + 1, pos + k)
FreadTail(f, pos, n) ==
    Sub(FreadCount(f, pos, n), FromInt(Len(FreadBytes(f, pos, n))))

----------------------------------------------------------------------------
(* The heap block of the current call.                                     *)

NoBlock == [state |-> "none", size |-> <<>>, bytes |-> <<>>, tail |-> <<>>]
Block(n) == [state |-> "live", size |-> n, bytes |-> <<>>, tail |-> <<>>]

\* malloc(n) may return a block
MallocMaySucceed(h, n) == LessEq(n, MallocMax) /\ (n = <<>> => ~h.malloc0_null)
\* malloc(n) may return a null pointer
MallocMayFail(h, n) == n # <<>> \/ h.malloc0_null

\* the bytes stored in a block: how many, and the one at offset i
BlockLen(b) == Add(FromInt(Len(b.bytes)), b.tail)
BlockByte(b, i) == IF i < Len(b.bytes) THEN b.bytes[i + 1] ELSE 0

\* a return path that leaves the block allocated
FreeBlock_forgotten(b) == b
\* free(p)
FreeBlock(b) == [b EXCEPT !.state = "freed"]

----------------------------------------------------------------------------
(* The state after construction: the caller holds nothing.                 *)

ZeroLabels == [count |-> 0, data |-> "NULL", valid |-> 0]
ZeroImages == [count |-> 0, rows |-> 0, columns |-> 0, data |-> "NULL", valid |-> 0]
ZeroLabelsHeader == [magic_number |-> <<>>, number_of_items |-> <<>>]
ZeroImagesHeader ==
    [magic_number |-> <<>>, number_of_images |-> <<>>,
     number_of_rows |-> <<>>, number_of_columns |-> <<>>]
NoAccess == [op |-> "none"]
NoProbe == [stage |-> "none"]

Init ==
    /\ host \in Hosts
    /\ pc = "idle"
    /\ fn = "none"
    /\ file = NullPath
    /\ fp = "null"
    /\ fpos = 0
    /\ header = ZeroLabelsHeader
    /\ size = 0
    /\ label_data = "NULL"
    /\ image_data = "NULL"
    /\ heap = NoBlock
    /\ labels = ZeroLabels
    /\ images = ZeroImages
    /\ access = NoAccess
    /\ trace = <<>>
    /\ probe = NoProbe

\* a loader that accepts any magic number
MagicDiffers_unchecked(v, magic) == FALSE
\* header.magic_number != MAGIC_NUMBER_...
MagicDiffers(v, magic) == v # magic

----------------------------------------------------------------------------
(* mnist_load_labels                                                       *)

\* the declarations, and if (filepath == 0) return labels;
load_labels_enter(f) ==
    /\ pc = "idle"
    /\ fn' = "load_labels"
    /\ file' = f
    /\ labels' = ZeroLabels
    /\ label_data' = "NULL"
    /\ fp' = "null"
    /\ header' = ZeroLabelsHeader
    /\ pc' = IF f.path = "null" THEN "returned" ELSE "labels_fopen"
    /\ UNCHANGED <<host, fpos, size, image_data, heap, images, access, trace, probe>>

\* fp = fopen(filepath, "rb"); if (!fp) return labels;
labels_fopen ==
    /\ pc = "labels_fopen"
    /\ trace' = Append(trace, "fopen")
    /\ IF file.path = "missing"
       THEN fp' = "null" /\ pc' = "returned"
       ELSE fp' = "open" /\ pc' = "labels_read_magic"
    /\ fpos' = 0
    /\ UNCHANGED <<host, fn, file, header, size, label_data, image_data, heap,
                   labels, images, access, probe>>

\* if (!fread(&header.magic_number, ...)) { fclose(fp); return labels; }
labels_read_magic ==
    /\ pc = "labels_read_magic"
    /\ IF FreadU32Count(file, fpos) = 0
       THEN /\ trace' = trace \o <<"fread_header_short", "fclose">>
            /\ fp' = "closed"
            /\ pc' = "returned"
            /\ UNCHANGED <<header, fpos>>
       ELSE /\ trace' = Append(trace, "fread_header")
            /\ header' = [header EXCEPT !.magic_number = FreadU32Value(host, file, fpos)]
            /\ fpos' = fpos + 4
            /\ pc' = "labels_read_items"
            /\ UNCHANGED fp
    /\ UNCHANGED <<host, fn, file, size, label_data, image_data, heap,
                   labels, images, access, probe>>

\* if (!fread(&header.number_of_items, ...)) { fclose(fp); return labels; }
labels_read_items ==
    /\ pc = "labels_read_items"
    /\ IF FreadU32Count(file, fpos) = 0
       THEN /\ trace' = trace \o <<"fread_header_short", "fclose">>
            /\ fp' = "closed"
            /\ pc' = "returned"
            /\ UNCHANGED <<header, fpos>>
       ELSE /\ trace' = Append(trace, "fread_header")
            /\ header' = [header EXCEPT !.number_of_items = FreadU32Value(host, file, fpos)]
            /\ fpos' = fpos + 4
            /\ pc' = "labels_normalize"
            /\ UNCHANGED fp
    /\ UNCHANGED <<host, fn, file, size, label_data, image_data, heap,
                   labels, images, access, probe>>

\* if (!is_big_endian()) { header.f = swap_endianness_u32(header.f); ... }
labels_normalize ==
    /\ pc = "labels_normalize"
    /\ header' = [magic_number |-> Normalize(host, header.magic_number),
                  number_of_items |-> Normalize(host, header.number_of_items)]
    /\ pc' = "labels_check_magic"
    /\ UNCHANGED <<host, fn, file, fp, fpos, size, label_data, image_data, heap,
                   labels, images, access, trace, probe>>

\* if (header.magic_number != MAGIC_NUMBER_LABELS) { fclose(fp); return labels; }
labels_check_magic ==
    /\ pc = "labels_check_magic"
    /\ IF MagicDiffers(header.magic_number, MAGIC_NUMBER_LABELS)
       THEN trace' = Append(trace, "fclose") /\ fp' = "closed" /\ pc' = "returned"
       ELSE pc' = "labels_malloc" /\ UNCHANGED <<trace, fp>>
    /\ UNCHANGED <<host, fn, file, fpos, header, size, label_data, image_data, heap,
                   labels, images, access, probe>>

\* label_data = malloc(sizeof(unsigned char) * header.number_of_items);
\* if (label_data == 0) return labels;
labels_malloc ==
    /\ pc = "labels_malloc"
    /\ trace' = Append(trace, "malloc")
    /\ \/ /\ MallocMaySucceed(host, header.number_of_items)
          /\ heap' = Block(header.number_of_items)
          /\ label_data' = "BLOCK"
          /\ pc' = "labels_fread"
       \/ /\ MallocMayFail(host, header.number_of_items)
          /\ label_data' = "NULL"
          /\ pc' = "returned"
          /\ UNCHANGED heap
    /\ UNCHANGED <<host, fn, file, fp, fpos, header, size, image_data,
                   labels, images, access, probe>>

\* if (fread(label_data, 1, n, fp) != n) { fclose(fp); free(label_data); return labels; }
labels_fread ==
    /\ pc = "labels_fread"
    /\ LET n == header.number_of_items
           filled == [heap EXCEPT !.bytes = FreadBytes(file, fpos, n),
                                  !.tail = FreadTail(file, fpos, n)]
       IN  IF FreadCount(file, fpos, n) # n
           THEN /\ trace' = trace \o <<"fread_payload", "fclose", "free">>
                /\ fp' = "closed"
                /\ heap' = FreeBlock(filled)
                /\ pc' = "returned"
           ELSE /\ trace' = Append(trace, "fread_payload")
                /\ heap' = filled
                /\ pc' = "labels_finish"
                /\ UNCHANGED fp
    /\ UNCHANGED <<host, fn, file, fpos, header, size, label_data, image_data,
                   labels, images, access, probe>>

\* fclose(fp); labels.count = ...; labels.data = label_data; labels.valid = 1;
labels_finish ==
    /\ pc = "labels_finish"
    /\ trace' = Append(trace, "fclose")
    /\ fp' = "closed"
    /\ labels' = [count |-> ToInt(header.number_of_items),
                  data |-> label_data,
                  valid |-> 1]
    /\ pc' = "returned"
    /\ UNCHANGED <<host, fn, file, fpos, header, size, label_data, image_data, heap,
                   images, access, probe>>

----------------------------------------------------------------------------
(* mnist_load_images                                                       *)

\* the declarations, and if (filepath == 0) return images;
load_images_enter(f) ==
    /\ pc = "idle"
    /\ fn' = "load_images"
    /\ file' = f
    /\ images' = ZeroImages
    /\ image_data' = "NULL"
    /\ fp' = "null"
    /\ header' = ZeroImagesHeader
    /\ pc' = IF f.path = "null" THEN "returned" ELSE "images_fopen"
    /\ UNCHANGED <<host, fpos, size, label_data, heap, labels, access, trace, probe>>

\* fp = fopen(filepath, "rb"); if (!fp) return images;
images_fopen ==
    /\ pc = "images_fopen"
    /\ trace' = Append(trace, "fopen")
    /\ IF file.path = "missing"
       THEN fp' = "null" /\ pc' = "returned"
       ELSE fp' = "open" /\ pc' = "images_read_magic"
    /\ fpos' = 0
    /\ UNCHANGED <<host, fn, file, header, size, label_data, image_data, heap,
                   labels, images, access, probe>>

\* if (!fread(&header.magic_number, ...)) { fclose(fp); return images; }
images_read_magic ==
    /\ pc = "images_read_magic"
    /\ IF FreadU32Count(file, fpos) = 0
       THEN /\ trace' = trace \o <<"fread_header_short", "fclose">>
            /\ fp' = "closed"
            /\ pc' = "returned"
            /\ UNCHANGED <<header, fpos>>
       ELSE /\ trace' = Append(trace, "fread_header")
            /\ header' = [header EXCEPT !.magic_number = FreadU32Value(host, file, fpos)]
            /\ fpos' = fpos + 4
            /\ pc' = "images_read_count"
            /\ UNCHANGED fp
    /\ UNCHANGED <<host, fn, file, size, label_data, image_data, heap,
                   labels, images, access, probe>>

\* if (!fread(&header.number_of_images, ...)) { fclose(fp); return images; }
images_read_count ==
    /\ pc = "images_read_count"
    /\ IF FreadU32Count(file, fpos) = 0
       THEN /\ trace' = trace \o <<"fread_header_short", "fclose">>
            /\ fp' = "closed"
            /\ pc' = "returned"
            /\ UNCHANGED <<header, fpos>>
       ELSE /\ trace' = Append(trace, "fread_header")
            /\ header' = [header EXCEPT !.number_of_images = FreadU32Value(host, file, fpos)]
            /\ fpos' = fpos + 4
            /\ pc' = "images_read_rows"
            /\ UNCHANGED fp
    /\ UNCHANGED <<host, fn, file, size, label_data, image_data, heap,
                   labels, images, access, probe>>

\* if (!fread(&header.number_of_rows, ...)) { fclose(fp); return images; }
images_read_rows ==
    /\ pc = "images_read_rows"
    /\ IF FreadU32Count(file, fpos) = 0
       THEN /\ trace' = trace \o <<"fread_header_short", "fclose">>
            /\ fp' = "closed"
            /\ pc' = "returned"
            /\ UNCHANGED <<header, fpos>>
       ELSE /\ trace' = Append(trace, "fread_header")
            /\ header' = [header EXCEPT !.number_of_rows = FreadU32Value(host, file, fpos)]
            /\ fpos' = fpos + 4
            /\ pc' = "images_read_columns"
            /\ UNCHANGED fp
    /\ UNCHANGED <<host, fn, file, size, label_data, image_data, heap,
                   labels, images, access, probe>>

\* if (!fread(&header.number_of_columns, ...)) { fclose(fp); return images; }
images_read_columns ==
    /\ pc = "images_read_columns"
    /\ IF FreadU32Count(file, fpos) = 0
       THEN /\ trace' = trace \o <<"fread_header_short", "fclose">>
            /\ fp' = "closed"
            /\ pc' = "returned"
            /\ UNCHANGED <<header, fpos>>
       ELSE /\ trace' = Append(trace, "fread_header")
            /\ header' = [header EXCEPT !.number_of_columns = FreadU32Value(host, file, fpos)]
            /\ fpos' = fpos + 4
            /\ pc' = "images_normalize"
            /\ UNCHANGED fp
    /\ UNCHANGED <<host, fn, file, size, label_data, image_data, heap,
                   labels, images, access, probe>>

\* if (!is_big_endian()) { header.f = swap_endianness_u32(header.f); ... }
images_normalize ==
    /\ pc = "images_normalize"
    /\ header' = [magic_number |-> Normalize(host, header.magic_number),
                  number_of_images |-> Normalize(host, header.number_of_images),
                  number_of_rows |-> Normalize(host, header.number_of_rows),
                  number_of_columns |-> Normalize(host, header.number_of_columns)]
    /\ pc' = "images_check_magic"
    /\ UNCHANGED <<host, fn, file, fp, fpos, size, label_data, image_data, heap,
                   labels, images, access, trace, probe>>

\* if (header.magic_number != MAGIC_NUMBER_IMAGES) { fclose(fp); return images; }
images_check_magic ==
    /\ pc = "images_check_magic"
    /\ IF MagicDiffers(header.magic_number, MAGIC_NUMBER_IMAGES)
       THEN trace' = Append(trace, "fclose") /\ fp' = "closed" /\ pc' = "returned"
       ELSE pc' = "images_malloc" /\ UNCHANGED <<trace, fp>>
    /\ UNCHANGED <<host, fn, file, fpos, header, size, label_data, image_data, heap,
                   labels, images, access, probe>>

\* int size = header.number_of_images * header.number_of_rows * header.number_of_columns;
PayloadSize(h) ==
    ToInt(MulU32(MulU32(h.number_of_images, h.number_of_rows), h.number_of_columns))

\* int size = ...; image_data = malloc(sizeof(unsigned char) * size);
\* if (image_data == 0) return images;
images_malloc ==
    /\ pc = "images_malloc"
    /\ size' = PayloadSize(header)
    /\ trace' = Append(trace, "malloc")
    /\ \/ /\ MallocMaySucceed(host, IntToSizeT(size'))
          /\ heap' = Block(IntToSizeT(size'))
          /\ image_data' = "BLOCK"
          /\ pc' = "images_fread"
       \/ /\ MallocMayFail(host, IntToSizeT(size'))
          /\ image_data' = "NULL"
          /\ pc' = "returned"
          /\ UNCHANGED heap
    /\ UNCHANGED <<host, fn, file, fp, fpos, header, label_data,
                   labels, images, access, probe>>

\* if (fread(image_data, 1, size, fp) != size) { fclose(fp); free(image_data); return images; }
images_fread ==
    /\ pc = "images_fread"
    /\ LET n == IntToSizeT(size)
           filled == [heap EXCEPT !.bytes = FreadBytes(file, fpos, n),
                                  !.tail = FreadTail(file, fpos, n)]
       IN  IF FreadCount(file, fpos, n) # n
           THEN /\ trace' = trace \o <<"fread_payload", "fclose", "free">>
                /\ fp' = "closed"
                /\ heap' = FreeBlock(filled)
                /\ pc' = "returned"
           ELSE /\ trace' = Append(trace, "fread_payload")
                /\ heap' = filled
                /\ pc' = "images_finish"
                /\ UNCHANGED fp
    /\ UNCHANGED <<host, fn, file, fpos, header, size, label_data, image_data,
                   labels, images, access, probe>>

\* fclose(fp); images.count = ...; images.rows = ...; images.columns = ...;
\* images.data = image_data; images.valid = 1;
images_finish ==
    /\ pc = "images_finish"
    /\ trace' = Append(trace, "fclose")
    /\ fp' = "closed"
    /\ images' = [count |-> ToInt(header.number_of_images),
                  rows |-> ToInt(header.number_of_rows),
                  columns |-> ToInt(header.number_of_columns),
                  data |-> image_data,
                  valid |-> 1]
    /\ pc' = "returned"
    /\ UNCHANGED <<host, fn, file, fpos, header, size, label_data, image_data, heap,
                   labels, access, probe>>

----------------------------------------------------------------------------
(* The accessors, called on a set that loaded (the caller tests valid      *)
(* first, as the usage in the header's comment does).  An access the C     *)
(* standard leaves undefined ends in any of the outcomes a build can give. *)

\* indices a caller passes
Indices(count) == (-1..MaxIndex) \cup {count}

\* a pointer into the block at byte offset off may be formed: the block is
\* live and off is inside it or one past its end
PointerDefined(data, b, off) ==
    data = "BLOCK" /\ b.state = "live" /\ off >= 0 /\ LessEq(FromInt(off), b.size)

\* the byte at offset off may be read
ReadDefined(data, b, off) ==
    data = "BLOCK" /\ b.state = "live" /\ off >= 0 /\ Less(FromInt(off), BlockLen(b))

UndefinedReads ==
    {[kind |-> "trap"], [kind |-> "byte", value |-> 0], [kind |-> "byte", value |-> 255]}

\* return labels.data[index];
mnist_get_label(index) ==
    /\ pc = "returned"
    /\ fn = "load_labels"
    /\ labels.valid = 1
    /\ \E out \in (IF ReadDefined(labels.data, heap, index)
                   THEN {[kind |-> "byte", value |-> BlockByte(heap, index)]}
                   ELSE UndefinedReads) :
         access' = [op |-> "get_label", index |-> index,
                    defined |-> ReadDefined(labels.data, heap, index), out |-> out]
    /\ UNCHANGED <<host, pc, fn, file, fp, fpos, header, size, label_data,
                   image_data, heap, labels, images, trace, probe>>

\* images.rows * images.columns * index, in int, is defined
OffsetDefined(set, index) ==
    /\ IntMulDefined(set.rows, set.columns)
    /\ IntMulDefined(set.rows * set.columns, index)

View(set, off) ==
    [kind |-> "view", rows |-> set.rows, columns |-> set.columns, offset |-> off]

UndefinedViews(set) == {[kind |-> "trap"], View(set, "wild")}

\* image.rows = images.rows; image.columns = images.columns;
\* image.data = &images.data[images.rows * images.columns * index];
mnist_get_image(index) ==
    /\ pc = "returned"
    /\ fn = "load_images"
    /\ images.valid = 1
    /\ LET ok == /\ OffsetDefined(images, index)
                 /\ PointerDefined(images.data, heap, images.rows * images.columns * index)
       IN  \E out \in (IF ok
                       THEN {View(images, images.rows * images.columns * index)}
                       ELSE UndefinedViews(images)) :
             access' = [op |-> "get_image", index |-> index, defined |-> ok, out |-> out]
    /\ UNCHANGED <<host, pc, fn, file, fp, fpos, header, size, label_data,
                   image_data, heap, labels, images, trace, probe>>

\* the caller is done with the set: it frees the data and holds nothing
Release ==
    /\ pc = "returned"
    /\ pc' = "idle"
    /\ fn' = "none"
    /\ file' = NullPath
    /\ fp' = "null"
    /\ fpos' = 0
    /\ header' = ZeroLabelsHeader
    /\ size' = 0
    /\ label_data' = "NULL"
    /\ image_data' = "NULL"
    /\ heap' = NoBlock
    /\ labels' = ZeroLabels
    /\ images' = ZeroImages
    /\ access' = NoAccess
    /\ trace' = <<>>
    /\ UNCHANGED <<host, probe>>

Next ==
    \/ \E f \in Files : load_labels_enter(f)
    \/ labels_fopen
    \/ labels_read_magic
    \/ labels_read_items
    \/ labels_normalize
    \/ labels_check_magic
    \/ labels_malloc
    \/ labels_fread
    \/ labels_finish
    \/ \E f \in Files : load_images_enter(f)
    \/ images_fopen
    \/ images_read_magic
    \/ images_read_count
    \/ images_read_rows
    \/ images_read_columns
    \/ images_normalize
    \/ images_check_magic
    \/ images_malloc
    \/ images_fread
    \/ images_finish
    \/ \E i \in Indices(labels.count) : mnist_get_label(i)
    \/ \E i \in Indices(images.count) : mnist_get_image(i)
    \/ Release

Spec == Init /\ [][Next]_vars

----------------------------------------------------------------------------
(* The endianness helpers on their own: four bytes of a file are read into *)
(* a u32 (fread), normalized as the loaders do, and swapped twice.         *)

ProbeBytes == {0, 1, 8, 128, 255}

SwapInit ==
    /\ host \in Hosts
    /\ pc = "probe"
    /\ fn = "none"
    /\ file = NullPath
    /\ fp = "null"
    /\ fpos = 0
    /\ header = ZeroLabelsHeader
    /\ size = 0
    /\ label_data = "NULL"
    /\ image_data = "NULL"
    /\ heap = NoBlock
    /\ labels = ZeroLabels
    /\ images = ZeroImages
    /\ access = NoAccess
    /\ trace = <<>>
    /\ probe \in {[stage |-> "disk", bytes |-> <<a, b, c, d>>, raw |-> <<>>,
                   field |-> <<>>, once |-> 0, twice |-> 0] :
                    a \in ProbeBytes, b \in ProbeBytes, c \in ProbeBytes, d \in ProbeBytes}

\* fread(&header.f, sizeof(u32), 1, fp)
probe_read ==
    /\ pc = "probe"
    /\ probe.stage = "disk"
    /\ probe' = [probe EXCEPT !.stage = "read", !.raw = FromMem(host.big, probe.bytes)]
    /\ UNCHANGED <<host, pc, fn, file, fp, fpos, header, size, label_data,
                   image_data, heap, labels, images, access, trace>>

\* if (!is_big_endian()) header.f = swap_endianness_u32(header.f);
probe_normalize ==
    /\ pc = "probe"
    /\ probe.stage = "read"
    /\ probe' = [probe EXCEPT !.stage = "normalized", !.field = Normalize(host, probe.raw)]
    /\ UNCHANGED <<host, pc, fn, file, fp, fpos, header, size, label_data,
                   image_data, heap, labels, images, access, trace>>

\* swap_endianness_u32(swap_endianness_u32(v))
probe_swap ==
    /\ pc = "probe"
    /\ probe.stage = "normalized"
    /\ LET once == swap_endianness_u32(probe.raw)
       IN  probe' = [probe EXCEPT !.stage = "swapped", !.once = once,
                                  !.twice = swap_endianness_u32(IntToU32(once))]
    /\ UNCHANGED <<host, pc, fn, file, fp, fpos, header, size, label_data,
                   image_data, heap, labels, images, access, trace>>

SwapNext == probe_read \/ probe_normalize \/ probe_swap

SwapSpec == SwapInit /\ [][SwapNext]_vars

----------------------------------------------------------------------------
(* What a finished load is measured against: the file as the format reads  *)
(* it, most significant byte first.                                        *)

\* the header field at byte offset pos
FieldAt(f, pos) == BigEndianValue([i \in 1..4 |-> FileByte(f, pos + i)])

HeaderBytes == IF fn = "load_labels" THEN 8 ELSE 16
FormatMagic == IF fn = "load_labels" THEN MAGIC_NUMBER_LABELS ELSE MAGIC_NUMBER_IMAGES

Loading == fn \in {"load_labels", "load_images"}
Returned == pc = "returned" /\ Loading
Opened == file.path = "ok"
HasHeader == Opened /\ LessEq(FromInt(HeaderBytes), Avail(file, 0))
ValidHeader == HasHeader /\ FieldAt(file, 0) = FormatMagic

\* the counts the header declares
DeclaredN == FieldAt(file, 4)
DeclaredR == FieldAt(file, 8)
DeclaredC == FieldAt(file, 12)
\* the payload bytes the header declares, as an exact product
DeclaredPayload ==
    IF fn = "load_labels" THEN DeclaredN ELSE Mul(Mul(DeclaredN, DeclaredR), DeclaredC)
\* the payload bytes the file has
PayloadBytes == Avail(file, HeaderBytes)

Result == IF fn = "load_labels" THEN labels ELSE images

\* an int field holds the number u
Holds(x, u) == x >= 0 /\ FromInt(x) = u

\* the block holds exactly the first n payload bytes of the file
BlockIsPayload(n) ==
    /\ heap.size = n
    /\ BlockLen(heap) = n
    /\ \A i \in 1..Len(heap.bytes) : heap.bytes[i] = FileByte(file, HeaderBytes + i)

\* the events of the current load
Did(e) == \E i \in 1..Len(trace) : trace[i] = e
AllocationFailed ==
    /\ Len(trace) > 0
    /\ trace[Len(trace)] = "malloc"
    /\ pc = "returned"

----------------------------------------------------------------------------
----------------------------------------------------------------------------
(* C1: an accessor called with an index outside [0, count) fails with      *)
(* IndexOutOfRange; it computes no offset and reads no byte outside the    *)
(* set's buffer.                                                           *)
C1_OutOfRangeIndexFailsExplicitly ==
    /\ access.op = "get_label" /\ ~(0 <= access.index /\ access.index < labels.count)
         => access.out.kind = "IndexOutOfRange"
    /\ access.op = "get_image" /\ ~(0 <= access.index /\ access.index < images.count)
         => access.out.kind = "IndexOutOfRange"

(* C2: a load that opened the file has closed it when it returns, on every *)
(* path.                                                                   *)
C2_HandleClosedAtReturn ==
    Returned /\ Did("fopen") /\ Opened => fp = "closed"

\* the failure modes of mnist_load_images, as what happened to the call
OpenFailure == file.path = "missing"
ShortHeader == Opened /\ ~HasHeader
MagicMismatch == HasHeader /\ FieldAt(file, 0) # FormatMagic
ShortPayloadRead ==
    /\ Did("fread_payload")
    /\ FreadCount(file, HeaderBytes, heap.size) # heap.size
LoadFailure ==
    OpenFailure \/ ShortHeader \/ MagicMismatch \/ AllocationFailed \/ ShortPayloadRead

(* C3: each failure mode of mnist_load_images (the file does not open, the *)
(* header is short, the magic number differs, the allocation fails, the    *)
(* payload read is short) returns valid = 0, and at return the block the   *)
(* call allocated is live only if a valid returned set owns it.            *)
C3_ImagesFailureReleasesBuffer ==
    Returned /\ fn = "load_images" =>
        /\ LoadFailure => images.valid = 0
        /\ heap.state = "live" => images.valid = 1 /\ images.data = "BLOCK"

\* a short payload read has happened and the block is freed
C3_Witness ==
    /\ Returned /\ fn = "load_images"
    /\ ShortPayloadRead
    /\ ~AllocationFailed
    /\ heap.state = "freed"
    /\ Len(heap.bytes) > 0
    /\ images.valid = 0

(* C4: an image file that loads with valid = 1 gives a buffer of exactly   *)
(* N*R*C bytes, the exact product of the three header fields, and count,   *)
(* rows and columns equal to N, R and C.                                   *)
C4_ImageBufferIsExactProduct ==
    Returned /\ fn = "load_images" /\ images.valid = 1 =>
        /\ BlockLen(heap) = DeclaredPayload
        /\ heap.size = DeclaredPayload
        /\ Holds(images.count, DeclaredN)
        /\ Holds(images.rows, DeclaredR)
        /\ Holds(images.columns, DeclaredC)

\* a label file with the label magic, a declared count N and at least N
\* payload bytes
WellFormedLabelFile == ValidHeader /\ LessEq(DeclaredN, PayloadBytes)

\* the allocator could not serve a request of one byte or more
OutOfMemory == AllocationFailed /\ header.number_of_items # <<>>

(* C5: a label set loaded with valid = 1 has count equal to the N of the   *)
(* header and a buffer of exactly N bytes, the file's bytes 8 .. 8+N-1 in  *)
(* order; and every well-formed label file, N = 0 included, loads with     *)
(* valid = 1 (an allocator that is out of memory is the AllocationError    *)
(* failure mode and is not held against the claim).                        *)
C5_LabelsLoadAsDeclared ==
    Returned /\ fn = "load_labels" =>
        /\ labels.valid = 1 =>
             Holds(labels.count, DeclaredN) /\ BlockIsPayload(DeclaredN)
        /\ WellFormedLabelFile /\ ~OutOfMemory => labels.valid = 1

(* C6: when the normalized magic number differs from the format constant,  *)
(* the load allocates no buffer and reads no payload byte at any point,    *)
(* and returns valid = 0.                                                  *)
C6_MagicMismatchAllocatesNothing ==
    Loading /\ MagicMismatch =>
        /\ ~Did("malloc")
        /\ ~Did("fread_payload")
        /\ heap.state = "none"
        /\ Result.data = "NULL"
        /\ pc = "returned" => Result.valid = 0
        /\ pc \in {"labels_check_magic", "images_check_magic", "returned"} =>
             header.magic_number # FormatMagic

\* an image file was given to mnist_load_labels, and rejected
C6_Witness ==
    /\ Returned /\ fn = "load_labels"
    /\ FieldAt(file, 0) = MAGIC_NUMBER_IMAGES
    /\ header.magic_number = MAGIC_NUMBER_IMAGES
    /\ trace = <<"fopen", "fread_header", "fread_header", "fclose">>
    /\ labels.valid = 0

(* C7: a file with a valid header and fewer payload bytes than the header  *)
(* declares (N for labels, N*R*C for images) returns valid = 0, the buffer *)
(* is freed and the result's data is null.                                 *)
C7_TruncatedPayloadRejected ==
    Returned /\ ValidHeader /\ Less(PayloadBytes, DeclaredPayload) =>
        /\ Result.valid = 0
        /\ Result.data = "NULL"
        /\ heap.state # "live"

\* the access is made with an index inside [0, count)
InRangeAccess ==
    /\ pc = "returned"
    /\ access.op \in {"get_label", "get_image"}
    /\ Result.valid = 1
    /\ 0 <= access.index /\ access.index < Result.count

(* C8: on a valid image set, mnist_get_image with 0 <= i < count returns a *)
(* view with the set's rows and columns that starts at byte rows*columns*i *)
(* of the buffer and spans rows*columns bytes inside it, views of distinct *)
(* indices being disjoint; mnist_get_label returns byte i of the buffer.   *)
C8_InRangeAccessIsExact ==
    /\ InRangeAccess /\ access.op = "get_image" =>
         /\ access.defined
         /\ access.out = View(images, images.rows * images.columns * access.index)
         /\ images.rows >= 0 /\ images.columns >= 0
         /\ LessEq(Add(FromInt(access.out.offset), FromInt(images.rows * images.columns)),
                   BlockLen(heap))
         \* the view starts where the view of index - 1 ends, or after
         /\ access.index > 0 =>
              access.out.offset >= (access.index - 1) * images.rows * images.columns
                                   + images.rows * images.columns
    /\ InRangeAccess /\ access.op = "get_label" =>
         /\ access.defined
         /\ access.out = [kind |-> "byte", value |-> FileByte(file, 8 + access.index + 1)]

(* C10: a returned set has valid = 0 and every other field zero, or it has *)
(* valid = 1, a live buffer as data and the header's values as count (and  *)
(* rows, columns).                                                         *)
C10_AllOrNothing ==
    Returned =>
        \/ Result = (IF fn = "load_labels" THEN ZeroLabels ELSE ZeroImages)
        \/ /\ Result.valid = 1
           /\ Result.data = "BLOCK"
           /\ heap.state = "live"
           /\ Holds(Result.count, DeclaredN)
           /\ fn = "load_images" =>
                Holds(images.rows, DeclaredR) /\ Holds(images.columns, DeclaredC)

====
